---- MODULE Spec2Model ----
(***************************************************************************)
(* Authentication and session lifecycle of the trivia backend:             *)
(* AuthService (middleware/auth.ts) on top of the Redis session store      *)
(* (database/redis.ts).  Every await on a store call is one atomic step;   *)
(* between two store calls of one request the other requests interleave.   *)
(* A store call made while the client is not ready throws; whether the     *)
(* client is ready at a call is the environment's choice (parameter ok).   *)
(* Time is counted in half hours.                                          *)
(*                                                                         *)
(* Three specifications run the same actions:                              *)
(*   SpecFail  one request in flight next to the atomic login / revoke     *)
(*             calls, store calls may throw, the clock stands still;       *)
(*   SpecTime  one request in flight, no store failures, revocations come  *)
(*             between two requests, the clock advances;                   *)
(*   SpecConc  two requests in flight (verifyToken / refreshTokens).       *)
(*   SpecTtl   one request in flight, no store failures, no revocation,   *)
(*             the clock also advances by steps shorter than an access     *)
(*             token's life and as long as a refresh token's;              *)
(*   SpecVerify two verifyToken requests in flight next to logins and     *)
(*             revocations, the clock advances;                            *)
(*   SpecChain one login and one request in flight, rotations up to       *)
(*             MaxSessions sessions, store calls may throw;                *)
(*   SpecSeq   one client: every call runs to completion before the next   *)
(*             call begins, store calls may throw, up to MaxLogins logins. *)
(*   SpecLimit the in-memory rate limiter of the validation middleware;    *)
(*   SpecDb    Database.transaction running MigrationRunner.runMigration.  *)
(* MaxSessions bounds the sessions created in SpecConc, SeqSessions those   *)
(* created in the other specifications; SeqLogins bounds the logins of     *)
(* SpecFail, SpecTime and SpecConc.                                        *)
(***************************************************************************)
EXTENDS Integers, FiniteSets, Sequences, TLC

\* ---- bounds of the model ------------------------------------------------
MaxSessions == 3
SeqSessions == 2
MaxTicks == 1
MaxLogins == 2
SeqLogins == 1
MaxClock == 3
MaxWindow == 2
MaxRate == 2

\* ---- program constants (half hours) -------------------------------------
AccessTTL == 2
RefreshTTL == 336
SessionTTL == 336

Procs == {"p1", "p2"}
Hosts == {"u1"}
Logins == {<<"u1", "d1">>, <<"u2", "none">>}
Users == {l[1] : l \in Logins}
Sids == 1..MaxSessions
TickSteps == {AccessTTL}
SlideSteps == {1, RefreshTTL - 1}

Clients == {"ip1", "unknown"}
Files == {"001_initial_schema.sql", "002_next.sql"}

Null == [op |-> "null"]
NoKey == [nokey |-> TRUE]

VARIABLES
  store,      \* redis: session:<sid> -> NoKey | [data, expiresAt]
  now,        \* wall clock
  ticks,      \* number of clock advances so far
  nextSid,    \* the next fresh randomUUID()
  logins,     \* number of generateTokens calls by login / register so far
  issued,     \* tokens returned to callers so far
  pc,         \* position of each request
  call,       \* the call each request is running (Idle when it runs none)
  lastDone,   \* the call that returned in the last step with its result, or Null
  deleted,    \* history: sid -> "no" | "rotate" | "revoke" | "quiet"
  rotated,    \* history: tokens a refreshTokens call returned a pair for
  parent,     \* history: sid -> the sid whose rotation created it (0: a login)
  limiter,    \* the closure validateRateLimit returned: its arguments, or Null
  requestCounts, \* the limiter's Map: client -> NoKey | [count, resetTime]
  clock,      \* Date.now() as the limiter reads it
  passed,     \* history: client -> next() calls since its record was set
  txn,        \* the Database.transaction in progress
  migrations, \* committed rows of the migrations table
  schema      \* migrations whose SQL is committed

authVars == <<store, now, ticks, nextSid, logins, issued, pc, call,
              deleted, rotated, parent>>

limiterVars == <<limiter, requestCounts, clock, passed>>

dbVars == <<txn, migrations, schema>>

vars == <<store, now, ticks, nextSid, logins, issued, pc, call, lastDone,
          deleted, rotated, parent, limiter, requestCounts, clock, passed,
          txn, migrations, schema>>

\* ---- users --------------------------------------------------------------
UserRecord(u) == [id |-> u, is_host |-> u \in Hosts]

\* ---- token codec (jsonwebtoken) -----------------------------------------
\* variant: the deviceId is left out of the access payload
SignAccess_NoDevice(user, sid, dev, t) ==
  [shape |-> "access", sessionId |-> sid, userId |-> user.id,
   isHost |-> user.is_host, deviceId |-> "none", exp |-> t + AccessTTL,
   sig |-> "ok"]

\* shape records which jwt.sign call produced the token; the payload itself
\* carries no kind field.  A refresh payload has no isHost/deviceId
\* (undefined, which is falsy / absent).
SignAccess(user, sid, dev, t) ==
  [shape |-> "access", sessionId |-> sid, userId |-> user.id,
   isHost |-> user.is_host, deviceId |-> dev, exp |-> t + AccessTTL,
   sig |-> "ok"]

SignRefresh(user, sid, t) ==
  [shape |-> "refresh", sessionId |-> sid, userId |-> user.id,
   isHost |-> FALSE, deviceId |-> "none", exp |-> t + RefreshTTL,
   sig |-> "ok"]

Forged ==
  [shape |-> "forged", sessionId |-> 1, userId |-> "u1",
   isHost |-> TRUE, deviceId |-> "none", exp |-> 100 * RefreshTTL,
   sig |-> "bad"]

\* variant: expiry compared with > (a token is still accepted at its exp)
jwtVerify_Lax(tok, t) ==
  IF tok.sig # "ok" THEN "invalid"
  ELSE IF t > tok.exp THEN "expired"
  ELSE "ok"

\* variant: the signature is not checked
jwtVerify_NoSig(tok, t) ==
  IF t >= tok.exp THEN "expired" ELSE "ok"

jwtVerify(tok, t) ==
  IF tok.sig # "ok" THEN "invalid"
  ELSE IF t >= tok.exp THEN "expired"
  ELSE "ok"

Payload(tok) ==
  [userId |-> tok.userId, sessionId |-> tok.sessionId,
   isHost |-> tok.isHost, deviceId |-> tok.deviceId]

\* ---- session store (RedisManager) ---------------------------------------
\* variant: the ttl is dropped, the key expires at once
setSession_NoTtl(st, sid, data, ttl, t) ==
  [st EXCEPT ![sid] = [data |-> data, expiresAt |-> t]]

\* variant: the sessionId is dropped from the key, every session is stored
\* under the one key of the first session
setSession_OneKey(st, sid, data, ttl, t) ==
  [st EXCEPT ![1] = [data |-> data, expiresAt |-> t + ttl]]

setSession(st, sid, data, ttl, t) ==
  [st EXCEPT ![sid] = [data |-> data, expiresAt |-> t + ttl]]

getSession(st, sid, t) ==
  IF st[sid] = NoKey THEN Null
  ELSE IF t >= st[sid].expiresAt THEN Null
  ELSE st[sid].data

\* variant: the DEL is sent for a key that does not exist
deleteSession_Noop(st, sid) == st

deleteSession(st, sid) == [st EXCEPT ![sid] = NoKey]

NewSession(user, dev, t) ==
  [userId |-> user.id, deviceId |-> dev, createdAt |-> t, lastActivity |-> t]

TokenPair(user, sid, dev, t) ==
  [accessToken |-> SignAccess(user, sid, dev, t),
   refreshToken |-> SignRefresh(user, sid, t),
   sessionId |-> sid]

\* ---- requests -----------------------------------------------------------
Idle == [op |-> "none"]

AllIdle == \A q \in Procs : pc[q] = "idle"

Presentable == issued \cup {Forged}

NoTxn == [pc |-> "idle"]

Init ==
  /\ store = [s \in Sids |-> NoKey]
  /\ now = 0
  /\ ticks = 0
  /\ nextSid = 1
  /\ logins = 0
  /\ issued = {}
  /\ pc = [p \in Procs |-> "idle"]
  /\ call = [p \in Procs |-> Idle]
  /\ lastDone = Null
  /\ deleted = [s \in Sids |-> "no"]
  /\ rotated = {}
  /\ parent = [s \in Sids |-> 0]
  /\ limiter = Null
  /\ requestCounts = [c \in Clients |-> NoKey]
  /\ clock = 0
  /\ passed = [c \in Clients |-> 0]
  /\ txn = NoTxn
  /\ migrations = {}
  /\ schema = {}

\* request q is inside a refreshTokens call that presented token t
Rotating(q, t) == pc[q] \in {"r_gen", "r_del"} /\ call[q].tok = t

\* the sessions of user u that getSession would find
UserSessions(u) ==
  {s \in Sids : getSession(store, s, now) # Null /\ store[s].data.userId = u}

\* history: what holds in the state a call on token t starts in
StartFacts(p, t) ==
  [expd |-> now >= t.exp,
   imm |-> IF lastDone.op = "issue" /\ lastDone.res # Null
              /\ lastDone.res.accessToken = t
           THEN [userId |-> lastDone.user, sessionId |-> lastDone.res.sessionId]
           ELSE Null,
   afterRot |-> /\ lastDone.op = "refresh"
                /\ lastDone.res # Null
                /\ lastDone.tok.shape = "refresh"
                /\ lastDone.tok.sessionId = t.sessionId,
   late |-> deleted[t.sessionId] # "no",
   wasQuiet |-> deleted[t.sessionId] = "quiet",
   revoked |-> deleted[t.sessionId] \in {"revoke", "quiet"},
   replay |-> t \in rotated,
   conc |-> \E q \in Procs \ {p} : Rotating(q, t)]

Returned(p, c) ==
  /\ pc' = [pc EXCEPT ![p] = "idle"]
  /\ call' = [call EXCEPT ![p] = Idle]
  /\ lastDone' = c

Continues(p, at, c) ==
  /\ pc' = [pc EXCEPT ![p] = at]
  /\ call' = [call EXCEPT ![p] = c]
  /\ lastDone' = Null

\* AuthService.generateTokens called by the login / register controllers
Login(u, d, ok) ==
  /\ nextSid <= MaxSessions
  /\ logins < MaxLogins
  /\ logins' = logins + 1
  /\ LET user == UserRecord(u)
         pair == TokenPair(user, nextSid, d, now)
         c == [op |-> "issue", user |-> u, dev |-> d, nstore |-> 1]
     IN IF ok
        THEN /\ store' = setSession(store, nextSid, NewSession(user, d, now),
                                    SessionTTL, now)
             /\ nextSid' = nextSid + 1
             /\ issued' = issued \cup {pair.accessToken, pair.refreshToken}
             /\ lastDone' = c @@ [res |-> pair, cause |-> "ok"]
        ELSE /\ lastDone' = c @@ [res |-> Null, cause |-> "store"]
             /\ UNCHANGED <<store, nextSid, issued>>
  /\ UNCHANGED <<now, ticks, pc, call, deleted, rotated, parent>>
  /\ UNCHANGED <<limiterVars, dbVars>>

\* AuthService.verifyToken up to the answer of getSession
VerifyStart(p, t, ok) ==
  /\ pc[p] = "idle"
  /\ LET v == jwtVerify(t, now)
         c == [op |-> "verify", tok |-> t] @@ StartFacts(p, t)
         sess == getSession(store, t.sessionId, now)
     IN IF v # "ok"
        THEN Returned(p, c @@ [res |-> Null, cause |-> v, nstore |-> 0])
        ELSE IF ~ok
        THEN Returned(p, c @@ [res |-> Null, cause |-> "store", nstore |-> 1])
        ELSE IF sess = Null
        THEN Returned(p, c @@ [res |-> Null, cause |-> "nosession", nstore |-> 1])
        ELSE Continues(p, "v_touch", c @@ [sess |-> sess, nstore |-> 1])
  /\ UNCHANGED <<store, now, ticks, nextSid, logins, issued,
                 deleted, rotated, parent>>
  /\ UNCHANGED <<limiterVars, dbVars>>

\* variant: the write-back is best effort, the payload is returned although
\* setSession threw
VerifyTouch_BestEffort(p, ok) ==
  /\ pc[p] = "v_touch"
  /\ LET c == call[p]
         touched == [c.sess EXCEPT !.lastActivity = now]
     IN IF ok
        THEN /\ store' = setSession(store, c.tok.sessionId, touched,
                                    SessionTTL, now)
             /\ Returned(p, [c EXCEPT !.nstore = 2] @@
                            [res |-> Payload(c.tok), cause |-> "ok"])
        ELSE /\ Returned(p, [c EXCEPT !.nstore = 2] @@
                            [res |-> Payload(c.tok), cause |-> "store"])
             /\ UNCHANGED store
  /\ UNCHANGED <<now, ticks, nextSid, logins, issued, deleted, rotated, parent>>
  /\ UNCHANGED <<limiterVars, dbVars>>

\* variant: the write-back stores a record rebuilt from the token
VerifyTouch_Rebuild(p, ok) ==
  /\ pc[p] = "v_touch"
  /\ LET c == call[p]
         rebuilt == [userId |-> c.tok.userId, deviceId |-> c.tok.deviceId,
                     createdAt |-> now, lastActivity |-> now]
     IN IF ok
        THEN /\ store' = setSession(store, c.tok.sessionId, rebuilt,
                                    SessionTTL, now)
             /\ Returned(p, [c EXCEPT !.nstore = 2] @@
                            [res |-> Payload(c.tok), cause |-> "ok"])
        ELSE /\ Returned(p, [c EXCEPT !.nstore = 2] @@
                            [res |-> Null, cause |-> "store"])
             /\ UNCHANGED store
  /\ UNCHANGED <<now, ticks, nextSid, logins, issued, deleted, rotated, parent>>
  /\ UNCHANGED <<limiterVars, dbVars>>

\* variant: the write-back keeps the expiry the key already has
VerifyTouch_KeepTtl(p, ok) ==
  /\ pc[p] = "v_touch"
  /\ LET c == call[p]
         sid == c.tok.sessionId
         touched == [c.sess EXCEPT !.lastActivity = now]
         left == IF store[sid] = NoKey THEN 0 ELSE store[sid].expiresAt - now
     IN IF ok
        THEN /\ store' = setSession(store, sid, touched, left, now)
             /\ Returned(p, [c EXCEPT !.nstore = 2] @@
                            [res |-> Payload(c.tok), cause |-> "ok"])
        ELSE /\ Returned(p, [c EXCEPT !.nstore = 2] @@
                            [res |-> Null, cause |-> "store"])
             /\ UNCHANGED store
  /\ UNCHANGED <<now, ticks, nextSid, logins, issued, deleted, rotated, parent>>
  /\ UNCHANGED <<limiterVars, dbVars>>

\* AuthService.verifyToken: the lastActivity write-back and the return
VerifyTouch(p, ok) ==
  /\ pc[p] = "v_touch"
  /\ LET c == call[p]
         touched == [c.sess EXCEPT !.lastActivity = now]
     IN IF ok
        THEN /\ store' = setSession(store, c.tok.sessionId, touched,
                                    SessionTTL, now)
             /\ Returned(p, [c EXCEPT !.nstore = 2] @@
                            [res |-> Payload(c.tok), cause |-> "ok"])
        ELSE /\ Returned(p, [c EXCEPT !.nstore = 2] @@
                            [res |-> Null, cause |-> "store"])
             /\ UNCHANGED store
  /\ UNCHANGED <<now, ticks, nextSid, logins, issued, deleted, rotated, parent>>
  /\ UNCHANGED <<limiterVars, dbVars>>

\* variant: a refused replay of a consumed token deletes the sessions that
\* the rotation of its session created (a theft response)
RefreshStart_Theft(p, t, ok) ==
  /\ pc[p] = "idle"
  /\ LET v == jwtVerify(t, now)
         c == [op |-> "refresh", tok |-> t,
               sessions |-> UserSessions(t.userId)] @@ StartFacts(p, t)
         sess == getSession(store, t.sessionId, now)
         purged == [s \in Sids |->
                      IF parent[s] = t.sessionId /\ t \in rotated
                      THEN NoKey ELSE store[s]]
     IN IF v # "ok"
        THEN /\ Returned(p, c @@ [res |-> Null, cause |-> v, nstore |-> 0])
             /\ UNCHANGED store
        ELSE IF ~ok
        THEN /\ Returned(p, c @@ [res |-> Null, cause |-> "store", nstore |-> 1])
             /\ UNCHANGED store
        ELSE IF sess = Null \/ sess.userId # t.userId
        THEN /\ Returned(p, c @@ [res |-> Null, cause |-> "nosession", nstore |-> 1])
             /\ store' = purged
        ELSE /\ Continues(p, "r_gen", c @@ [sess |-> sess, nstore |-> 1])
             /\ UNCHANGED store
  /\ UNCHANGED <<now, ticks, nextSid, logins, issued, deleted, rotated, parent>>
  /\ UNCHANGED <<limiterVars, dbVars>>

\* AuthService.refreshTokens up to the answer of getSession
RefreshStart(p, t, ok) ==
  /\ pc[p] = "idle"
  /\ LET v == jwtVerify(t, now)
         c == [op |-> "refresh", tok |-> t,
               sessions |-> UserSessions(t.userId)] @@ StartFacts(p, t)
         sess == getSession(store, t.sessionId, now)
     IN IF v # "ok"
        THEN Returned(p, c @@ [res |-> Null, cause |-> v, nstore |-> 0])
        ELSE IF ~ok
        THEN Returned(p, c @@ [res |-> Null, cause |-> "store", nstore |-> 1])
        ELSE IF sess = Null \/ sess.userId # t.userId
        THEN Returned(p, c @@ [res |-> Null, cause |-> "nosession", nstore |-> 1])
        ELSE /\ pc' = [pc EXCEPT ![p] = "r_gen"]
             /\ call' = [q \in Procs |->
                           IF q = p THEN c @@ [sess |-> sess, nstore |-> 1]
                           ELSE IF Rotating(q, t)
                                THEN [call[q] EXCEPT !.conc = TRUE]
                                ELSE call[q]]
             /\ lastDone' = Null
  /\ UNCHANGED <<store, now, ticks, nextSid, logins, issued,
                 deleted, rotated, parent>>
  /\ UNCHANGED <<limiterVars, dbVars>>

\* variant: the new pair and session are made for the first user on record
\* instead of the user of the session
RefreshGen_FirstUser(p, ok) ==
  /\ pc[p] = "r_gen"
  /\ nextSid <= MaxSessions
  /\ LET c == call[p]
         user == [id |-> "u1", is_host |-> FALSE]
         pair == TokenPair(user, nextSid, c.sess.deviceId, now)
     IN IF ok
        THEN /\ store' = setSession(store, nextSid,
                                    NewSession(user, c.sess.deviceId, now),
                                    SessionTTL, now)
             /\ nextSid' = nextSid + 1
             /\ parent' = [parent EXCEPT ![nextSid] = c.tok.sessionId]
             /\ Continues(p, "r_del", [c EXCEPT !.nstore = 2] @@ [new |-> pair])
        ELSE /\ Returned(p, [c EXCEPT !.nstore = 2] @@
                            [res |-> Null, cause |-> "store"])
             /\ UNCHANGED <<store, nextSid, parent>>
  /\ UNCHANGED <<now, ticks, logins, issued, deleted, rotated>>
  /\ UNCHANGED <<limiterVars, dbVars>>

\* AuthService.refreshTokens: generateTokens for the user of the session
RefreshGen(p, ok) ==
  /\ pc[p] = "r_gen"
  /\ nextSid <= MaxSessions
  /\ LET c == call[p]
         user == [id |-> c.sess.userId, is_host |-> FALSE]
         pair == TokenPair(user, nextSid, c.sess.deviceId, now)
     IN IF ok
        THEN /\ store' = setSession(store, nextSid,
                                    NewSession(user, c.sess.deviceId, now),
                                    SessionTTL, now)
             /\ nextSid' = nextSid + 1
             /\ parent' = [parent EXCEPT ![nextSid] = c.tok.sessionId]
             /\ Continues(p, "r_del", [c EXCEPT !.nstore = 2] @@ [new |-> pair])
        ELSE /\ Returned(p, [c EXCEPT !.nstore = 2] @@
                            [res |-> Null, cause |-> "store"])
             /\ UNCHANGED <<store, nextSid, parent>>
  /\ UNCHANGED <<now, ticks, logins, issued, deleted, rotated>>
  /\ UNCHANGED <<limiterVars, dbVars>>

\* variant: the pair is returned although deleteSession threw
RefreshDel_Lenient(p, ok) ==
  /\ pc[p] = "r_del"
  /\ LET c == call[p]
         old == c.tok.sessionId
     IN /\ issued' = issued \cup {c.new.accessToken, c.new.refreshToken}
        /\ rotated' = rotated \cup {c.tok}
        /\ Returned(p, [c EXCEPT !.nstore = 3] @@
                       [res |-> [accessToken |-> c.new.accessToken,
                                 refreshToken |-> c.new.refreshToken],
                        cause |-> IF ok THEN "ok" ELSE "store",
                        dup |-> c.tok \in rotated])
        /\ IF ok
           THEN /\ store' = deleteSession(store, old)
                /\ deleted' = [deleted EXCEPT ![old] =
                                 IF @ = "no" THEN "rotate" ELSE @]
           ELSE UNCHANGED <<store, deleted>>
  /\ UNCHANGED <<now, ticks, nextSid, logins, parent>>
  /\ UNCHANGED <<limiterVars, dbVars>>

\* AuthService.refreshTokens: deleteSession of the old session and the return
RefreshDel(p, ok) ==
  /\ pc[p] = "r_del"
  /\ LET c == call[p]
         old == c.tok.sessionId
     IN IF ok
        THEN /\ store' = deleteSession(store, old)
             /\ issued' = issued \cup {c.new.accessToken, c.new.refreshToken}
             /\ rotated' = rotated \cup {c.tok}
             /\ deleted' = [deleted EXCEPT ![old] =
                              IF @ = "no" THEN "rotate" ELSE @]
             /\ Returned(p, [c EXCEPT !.nstore = 3] @@
                            [res |-> [accessToken |-> c.new.accessToken,
                                      refreshToken |-> c.new.refreshToken],
                             cause |-> "ok", dup |-> c.tok \in rotated])
        ELSE /\ Returned(p, [c EXCEPT !.nstore = 3] @@
                            [res |-> Null, cause |-> "store"])
             /\ UNCHANGED <<store, issued, rotated, deleted>>
  /\ UNCHANGED <<now, ticks, nextSid, logins, parent>>
  /\ UNCHANGED <<limiterVars, dbVars>>

\* AuthService.revokeSession
RevokeSession(sid, ok) ==
  /\ sid < nextSid
  /\ LET c == [op |-> "revoke", sid |-> sid, res |-> Null, nstore |-> 1]
     IN IF ok
        THEN /\ store' = deleteSession(store, sid)
             /\ deleted' = [deleted EXCEPT ![sid] =
                              IF AllIdle \/ @ = "quiet" THEN "quiet"
                              ELSE "revoke"]
             /\ lastDone' = c @@ [cause |-> "ok"]
        ELSE /\ lastDone' = c @@ [cause |-> "store"]
             /\ UNCHANGED <<store, deleted>>
  /\ UNCHANGED <<now, ticks, nextSid, logins, issued, pc, call, rotated, parent>>
  /\ UNCHANGED <<limiterVars, dbVars>>

\* AuthService.revokeAllUserSessions: writes a log line
RevokeAllUserSessions(u) ==
  /\ lastDone' = [op |-> "revokeAll", user |-> u, res |-> Null, cause |-> "ok",
                  nstore |-> 0]
  /\ UNCHANGED <<store, now, ticks, nextSid, logins, issued, pc, call,
                 deleted, rotated, parent>>
  /\ UNCHANGED <<limiterVars, dbVars>>

\* ---- HTTP layer ---------------------------------------------------------
\* authenticate: what the middleware does with the answer of verifyToken
authenticate(payload) ==
  IF payload = Null
  THEN [status |-> 401, error |-> "Invalid or expired token", next |-> FALSE,
        user |-> Null]
  ELSE [status |-> 0, error |-> "", next |-> TRUE,
        user |-> [id |-> payload.userId, isHost |-> payload.isHost]]

\* requireHost on the req.user that authenticate left
requireHost(user) ==
  IF user = Null THEN [status |-> 401, error |-> "Authentication required"]
  ELSE IF ~user.isHost THEN [status |-> 403, error |-> "Host privileges required"]
  ELSE [status |-> 0, error |-> ""]

\* the login controller: the response for the outcome of generateTokens
login(r) ==
  IF r.res = Null
  THEN [status |-> 401, error |-> "Redis not connected", tokens |-> Null]
  ELSE [status |-> 200, error |-> "",
        tokens |-> [accessToken |-> r.res.accessToken,
                    refreshToken |-> r.res.refreshToken]]

\* the refreshToken controller: the response for the answer of refreshTokens
refreshToken(tokens) ==
  IF tokens = Null
  THEN [status |-> 401, error |-> "Invalid refresh token", tokens |-> Null]
  ELSE [status |-> 200, error |-> "", tokens |-> tokens]

\* what the Authorization header of a request can be
Headers == {"none", "basic", "bearer"}

\* verifyToken rejecting instead of answering
Thrown == [op |-> "throw"]

\* variant: a bearer token that fails verification is answered with 401
optionalAuth_Strict(h, out) ==
  IF h = "bearer" /\ out = Thrown
  THEN [nexts |-> 1, sent |-> FALSE, user |-> Null]
  ELSE IF h = "bearer" /\ out = Null
  THEN [nexts |-> 0, sent |-> TRUE, user |-> Null]
  ELSE IF h = "bearer"
  THEN [nexts |-> 1, sent |-> FALSE,
        user |-> [id |-> out.userId, isHost |-> out.isHost]]
  ELSE [nexts |-> 1, sent |-> FALSE, user |-> Null]

\* optionalAuth for a request with header h whose verifyToken call, if one
\* is made, gives out: the calls of next(), whether a response was sent,
\* and the req.user it leaves
optionalAuth(h, out) ==
  IF h = "bearer" /\ out = Thrown
  THEN [nexts |-> 1, sent |-> FALSE, user |-> Null]
  ELSE IF h = "bearer" /\ out # Null
  THEN [nexts |-> 1, sent |-> FALSE,
        user |-> [id |-> out.userId, isHost |-> out.isHost]]
  ELSE [nexts |-> 1, sent |-> FALSE, user |-> Null]

\* a request through optionalAuth: with a bearer token it is the request
\* whose verifyToken call has just returned
OptionalAuth(h) ==
  /\ h = "bearer" => lastDone.op = "verify"
  /\ LET out == IF h = "bearer" THEN lastDone.res ELSE Null
     IN lastDone' = [op |-> "optional", header |-> h, out |-> out,
                     res |-> Null, cause |-> "ok", nstore |-> 0]
                    @@ optionalAuth(h, out)
  /\ UNCHANGED <<store, now, ticks, nextSid, logins, issued, pc, call,
                 deleted, rotated, parent>>
  /\ UNCHANGED <<limiterVars, dbVars>>

\* POST /logout: the logout controller, run when the authenticate middleware
\* of the request has just called next()
Logout ==
  /\ lastDone.op = "verify"
  /\ authenticate(lastDone.res).next
  /\ lastDone' = [op |-> "logout", tok |-> lastDone.tok, status |-> 200,
                  message |-> "Logout successful", res |-> Null,
                  cause |-> "ok", nstore |-> 0]
  /\ UNCHANGED <<store, now, ticks, nextSid, logins, issued, pc, call,
                 deleted, rotated, parent>>
  /\ UNCHANGED <<limiterVars, dbVars>>

\* ---- rate limiter (validation middleware) --------------------------------
\* validateRateLimit(windowMs, maxRequests): builds the closure and its Map
ValidateRateLimit(w, m) ==
  /\ limiter = Null
  /\ limiter' = [windowMs |-> w, maxRequests |-> m]
  /\ requestCounts' = [c \in Clients |-> NoKey]
  /\ passed' = [c \in Clients |-> 0]
  /\ lastDone' = Null
  /\ UNCHANGED <<clock, authVars, dbVars>>

\* the middleware validateRateLimit returned, run for a request of client c
RateLimit(c) ==
  /\ limiter # Null
  /\ LET clientData == requestCounts[c]
         r == [op |-> "limit", client |-> c, res |-> Null, cause |-> "ok",
               nstore |-> 0]
     IN IF clientData = NoKey \/ clock > clientData.resetTime
        THEN /\ requestCounts' = [requestCounts EXCEPT ![c] =
                                    [count |-> 1,
                                     resetTime |-> clock + limiter.windowMs]]
             /\ passed' = [passed EXCEPT ![c] = 1]
             /\ lastDone' = r @@ [status |-> 0, next |-> TRUE, fresh |-> TRUE]
        ELSE IF clientData.count >= limiter.maxRequests
        THEN /\ lastDone' = r @@ [status |-> 429, next |-> FALSE,
                                  fresh |-> FALSE]
             /\ UNCHANGED <<requestCounts, passed>>
        ELSE /\ requestCounts' = [requestCounts EXCEPT ![c].count = @ + 1]
             /\ passed' = [passed EXCEPT ![c] = @ + 1]
             /\ lastDone' = r @@ [status |-> 0, next |-> TRUE, fresh |-> FALSE]
  /\ UNCHANGED <<limiter, clock, authVars, dbVars>>

\* a millisecond passes
Elapse ==
  /\ clock < MaxClock
  /\ clock' = clock + 1
  /\ lastDone' = Null
  /\ UNCHANGED <<limiter, requestCounts, passed, authVars, dbVars>>

\* ---- database (Database.transaction, MigrationRunner) --------------------
\* the statement st is sent on the transaction's client
Sent(t, st) == [t EXCEPT !.log = Append(@, st)]

\* the first error thrown inside the try block is e: the catch is entered
Caught(t, e) == [t EXCEPT !.pc = "rollback", !.first = e, !.threw = e]

\* MigrationRunner.runMigration(f) up to pool.connect() in
\* Database.transaction; ok: the pool hands out a client
RunMigration(f, ok) ==
  /\ txn.pc = "idle"
  /\ IF ok
     THEN /\ txn' = [pc |-> "begin", file |-> f, log |-> <<>>,
                     first |-> "none", threw |-> "none", cbDone |-> FALSE,
                     released |-> 0, ranSql |-> FALSE, pending |-> {}]
          /\ lastDone' = Null
     ELSE /\ lastDone' = [op |-> "migrate", file |-> f, client |-> FALSE,
                          threw |-> "connect", res |-> Null, cause |-> "ok",
                          nstore |-> 0]
          /\ UNCHANGED txn
  /\ UNCHANGED <<migrations, schema, authVars, limiterVars>>

\* client.query('BEGIN')
TxBegin(ok) ==
  /\ txn.pc = "begin"
  /\ txn' = IF ok THEN [Sent(txn, "BEGIN") EXCEPT !.pc = "sql"]
            ELSE Caught(Sent(txn, "BEGIN"), "begin")
  /\ lastDone' = Null
  /\ UNCHANGED <<migrations, schema, authVars, limiterVars>>

\* the callback of runMigration: client.query(migrationSQL)
TxSql(ok) ==
  /\ txn.pc = "sql"
  /\ txn' = IF ok
            THEN [Sent(txn, "SQL") EXCEPT !.pc = "insert", !.ranSql = TRUE]
            ELSE Caught(Sent(txn, "SQL"), "callback")
  /\ lastDone' = Null
  /\ UNCHANGED <<migrations, schema, authVars, limiterVars>>

\* the callback of runMigration: INSERT INTO migrations (filename); the
\* insert fails on a filename that is already recorded (UNIQUE)
TxInsert(ok) ==
  /\ txn.pc = "insert"
  /\ txn' = IF ok /\ txn.file \notin migrations
            THEN [Sent(txn, "INSERT") EXCEPT !.pc = "commit", !.cbDone = TRUE,
                                             !.pending = {txn.file}]
            ELSE Caught(Sent(txn, "INSERT"), "callback")
  /\ lastDone' = Null
  /\ UNCHANGED <<migrations, schema, authVars, limiterVars>>

\* client.query('COMMIT')
TxCommit(ok) ==
  /\ txn.pc = "commit"
  /\ IF ok
     THEN /\ txn' = [Sent(txn, "COMMIT") EXCEPT !.pc = "release"]
          /\ migrations' = migrations \cup txn.pending
          /\ schema' = IF txn.ranSql THEN schema \cup {txn.file} ELSE schema
     ELSE /\ txn' = Caught(Sent(txn, "COMMIT"), "commit")
          /\ UNCHANGED <<migrations, schema>>
  /\ lastDone' = Null
  /\ UNCHANGED <<authVars, limiterVars>>

\* the catch block: client.query('ROLLBACK'), then throw error; a ROLLBACK
\* that throws leaves the catch block with its own error
TxRollback(ok) ==
  /\ txn.pc = "rollback"
  /\ txn' = IF ok
            THEN [Sent(txn, "ROLLBACK") EXCEPT !.pc = "release", !.pending = {}]
            ELSE [Sent(txn, "ROLLBACK") EXCEPT !.pc = "release",
                                               !.pending = {},
                                               !.threw = "rollback"]
  /\ lastDone' = Null
  /\ UNCHANGED <<migrations, schema, authVars, limiterVars>>

\* the finally block: client.release(), then the return or the throw
TxRelease ==
  /\ txn.pc = "release"
  /\ lastDone' = [op |-> "migrate", file |-> txn.file, client |-> TRUE,
                  log |-> txn.log, first |-> txn.first, threw |-> txn.threw,
                  cbDone |-> txn.cbDone, released |-> txn.released + 1,
                  res |-> Null, cause |-> "ok", nstore |-> 0]
  /\ txn' = NoTxn
  /\ UNCHANGED <<migrations, schema, authVars, limiterVars>>

\* ---- environment --------------------------------------------------------
Tick(d) ==
  /\ ticks < MaxTicks
  /\ now' = now + d
  /\ ticks' = ticks + 1
  /\ lastDone' = Null
  /\ UNCHANGED <<store, nextSid, logins, issued, pc, call,
                 deleted, rotated, parent>>
  /\ UNCHANGED <<limiterVars, dbVars>>

\* ---- specifications -----------------------------------------------------
NextConc ==
  \/ \E l \in Logins : logins < SeqLogins /\ Login(l[1], l[2], TRUE)
  \/ \E p \in Procs, t \in Presentable : VerifyStart(p, t, TRUE)
  \/ \E p \in Procs : VerifyTouch(p, TRUE)
  \/ \E p \in Procs, t \in Presentable : RefreshStart(p, t, TRUE)
  \/ \E p \in Procs : RefreshGen(p, TRUE)
  \/ \E p \in Procs : RefreshDel(p, TRUE)

SpecConc == Init /\ [][NextConc]_vars

NextFail ==
  \/ \E l \in Logins, ok \in BOOLEAN :
       nextSid <= SeqSessions /\ logins < SeqLogins /\ Login(l[1], l[2], ok)
  \/ \E t \in Presentable, ok \in BOOLEAN : VerifyStart("p1", t, ok)
  \/ \E ok \in BOOLEAN : VerifyTouch("p1", ok)
  \/ \E t \in Presentable, ok \in BOOLEAN : RefreshStart("p1", t, ok)
  \/ \E ok \in BOOLEAN : nextSid <= SeqSessions /\ RefreshGen("p1", ok)
  \/ \E ok \in BOOLEAN : RefreshDel("p1", ok)
  \/ \E sid \in Sids, ok \in BOOLEAN : RevokeSession(sid, ok)
  \/ \E u \in Users : RevokeAllUserSessions(u)
  \/ Logout

SpecFail == Init /\ [][NextFail]_vars

NextTime ==
  \/ \E l \in Logins :
       nextSid <= SeqSessions /\ logins < SeqLogins /\ Login(l[1], l[2], TRUE)
  \/ \E t \in Presentable : VerifyStart("p1", t, TRUE)
  \/ VerifyTouch("p1", TRUE)
  \/ \E t \in Presentable : RefreshStart("p1", t, TRUE)
  \/ nextSid <= SeqSessions /\ RefreshGen("p1", TRUE)
  \/ RefreshDel("p1", TRUE)
  \/ \E sid \in Sids : AllIdle /\ RevokeSession(sid, TRUE)
  \/ \E d \in TickSteps : Tick(d)

SpecTime == Init /\ [][NextTime]_vars

NextTtl ==
  \/ \E l \in Logins :
       nextSid <= SeqSessions /\ logins < SeqLogins /\ Login(l[1], l[2], TRUE)
  \/ \E t \in Presentable : VerifyStart("p1", t, TRUE)
  \/ VerifyTouch("p1", TRUE)
  \/ \E t \in Presentable : RefreshStart("p1", t, TRUE)
  \/ nextSid <= SeqSessions /\ RefreshGen("p1", TRUE)
  \/ RefreshDel("p1", TRUE)
  \/ \E d \in TickSteps \cup SlideSteps : Tick(d)

SpecTtl == Init /\ [][NextTtl]_vars

NextVerify ==
  \/ \E l \in Logins :
       nextSid <= SeqSessions /\ logins < SeqLogins /\ Login(l[1], l[2], TRUE)
  \/ \E p \in Procs, t \in Presentable : VerifyStart(p, t, TRUE)
  \/ \E p \in Procs : VerifyTouch(p, TRUE)
  \/ \E sid \in Sids : RevokeSession(sid, TRUE)
  \/ \E d \in SlideSteps : Tick(d)

SpecVerify == Init /\ [][NextVerify]_vars

NextChain ==
  \/ \E l \in Logins, ok \in BOOLEAN :
       logins < SeqLogins /\ Login(l[1], l[2], ok)
  \/ \E t \in Presentable, ok \in BOOLEAN : VerifyStart("p1", t, ok)
  \/ \E ok \in BOOLEAN : VerifyTouch("p1", ok)
  \/ \E t \in Presentable, ok \in BOOLEAN : RefreshStart("p1", t, ok)
  \/ \E ok \in BOOLEAN : RefreshGen("p1", ok)
  \/ \E ok \in BOOLEAN : RefreshDel("p1", ok)

SpecChain == Init /\ [][NextChain]_vars

NextLimit ==
  \/ \E w \in 0..MaxWindow, m \in 0..MaxRate : ValidateRateLimit(w, m)
  \/ \E c \in Clients : RateLimit(c)
  \/ Elapse

SpecLimit == Init /\ [][NextLimit]_vars

NextDb ==
  \/ \E f \in Files, ok \in BOOLEAN : RunMigration(f, ok)
  \/ \E ok \in BOOLEAN : TxBegin(ok)
  \/ \E ok \in BOOLEAN : TxSql(ok)
  \/ \E ok \in BOOLEAN : TxInsert(ok)
  \/ \E ok \in BOOLEAN : TxCommit(ok)
  \/ \E ok \in BOOLEAN : TxRollback(ok)
  \/ TxRelease

SpecDb == Init /\ [][NextDb]_vars

NextSeq ==
  \/ \E l \in Logins, ok \in BOOLEAN :
       AllIdle /\ nextSid <= SeqSessions /\ Login(l[1], l[2], ok)
  \/ \E t \in Presentable, ok \in BOOLEAN : VerifyStart("p1", t, ok)
  \/ \E ok \in BOOLEAN : VerifyTouch("p1", ok)
  \/ \E t \in Presentable, ok \in BOOLEAN : RefreshStart("p1", t, ok)
  \/ \E ok \in BOOLEAN : nextSid <= SeqSessions /\ RefreshGen("p1", ok)
  \/ \E ok \in BOOLEAN : RefreshDel("p1", ok)
  \/ \E sid \in Sids, ok \in BOOLEAN : AllIdle /\ RevokeSession(sid, ok)
  \/ \E h \in Headers : OptionalAuth(h)

SpecSeq == Init /\ [][NextSeq]_vars

\* ---- properties ---------------------------------------------------------
Live(sid) == getSession(store, sid, now) # Null

\* C1: a verifyToken that starts right after generateTokens returned, on the
\* access token just issued, and meets no store failure, returns a payload
\* with the userId and the sessionId of that issuance.
C1_IssueThenVerify ==
  (lastDone.op = "verify" /\ lastDone.imm # Null /\ lastDone.cause # "store")
    => /\ lastDone.res # Null
       /\ lastDone.res.userId = lastDone.imm.userId
       /\ lastDone.res.sessionId = lastDone.imm.sessionId

C1_Witness ==
  /\ lastDone.op = "verify"
  /\ lastDone.imm # Null
  /\ lastDone.res # Null
  /\ lastDone.res.userId = "u2"

\* C2: a verifyToken that starts after revokeSession(sid) completed with no
\* request in flight, on a token of that sid, returns null.
C2_RevokedStaysDead ==
  (lastDone.op = "verify" /\ lastDone.wasQuiet) => lastDone.res = Null

C2_Witness ==
  /\ lastDone.op = "verify"
  /\ lastDone.wasQuiet
  /\ lastDone.tok.shape = "access"
  /\ ~lastDone.expd
  /\ lastDone.cause = "nosession"

\* C3: a verifyToken or refreshTokens call that starts after its sessionId
\* was deleted by a revocation or a rotation never succeeds.
C3_NoUseAfterDelete ==
  (lastDone.op \in {"verify", "refresh"} /\ lastDone.late)
    => lastDone.res = Null

\* C4: two refreshTokens calls that overlap and present the same token never
\* both return a pair.
C4_OneRotationWins ==
  ~(/\ lastDone.op = "refresh"
    /\ lastDone.res # Null
    /\ lastDone.conc
    /\ lastDone.dup)

\* C5: a refreshTokens call that starts after a refreshTokens call on the
\* same refresh token returned a pair returns null.
C5_ConsumedStaysConsumed ==
  (lastDone.op = "refresh" /\ lastDone.tok.shape = "refresh" /\ lastDone.replay)
    => lastDone.res = Null

C7_RefreshIsNoAccess ==
  (lastDone.op = "verify" /\ lastDone.tok.shape = "refresh")
    => lastDone.res = Null

\* C8: refreshTokens on an access token returns null.
C8_AccessIsNoRefresh ==
  (lastDone.op = "refresh" /\ lastDone.tok.shape = "access")
    => lastDone.res = Null

\* C9 (as claimed): a verifyToken on the unexpired access token of a session
\* that starts right after the rotation of that session's refresh token
\* returned a pair, the session never revoked, succeeds.
C9_OldAccessSurvives ==
  (/\ lastDone.op = "verify"
   /\ lastDone.tok.shape = "access"
   /\ lastDone.afterRot
   /\ ~lastDone.expd
   /\ ~lastDone.revoked
   /\ lastDone.cause # "store")
    => lastDone.res # Null

\* C9 (amended): a verifyToken on the access token of a session that starts
\* right after the rotation of that session's refresh token returned a pair
\* returns null: the rotation deleted the session.
C9_RotationInvalidatesOld ==
  (/\ lastDone.op = "verify"
   /\ lastDone.tok.shape = "access"
   /\ lastDone.afterRot)
    => lastDone.res = Null

C9_Witness ==
  /\ lastDone.op = "verify"
  /\ lastDone.tok.shape = "access"
  /\ lastDone.afterRot
  /\ ~lastDone.expd
  /\ lastDone.cause = "nosession"

\* C10: a verifyToken that starts at or after the exp of its token returns
\* null in that same step, having made no store call, the store unchanged.
C10_ExpiredFailsUntouched ==
  [][(lastDone'.op = "verify" /\ lastDone'.expd)
       => /\ lastDone'.res = Null
          /\ lastDone'.nstore = 0
          /\ pc' = pc
          /\ store' = store]_vars

C10_Witness ==
  /\ lastDone.op = "verify"
  /\ lastDone.expd
  /\ lastDone.tok.shape = "access"
  /\ now = lastDone.tok.exp
  /\ Live(lastDone.tok.sessionId)

\* C11: once the logout endpoint answered success to a request authenticated
\* with an access token, the session of that token is not in the store.
C11_LogoutRemovesSession ==
  (lastDone.op = "logout" /\ lastDone.status = 200
     /\ lastDone.tok.shape = "access")
    => ~Live(lastDone.tok.sessionId)

\* C12: when revokeAllUserSessions(userId) has returned, no live session of
\* that user is in the store.
C12_RevokeAllRemovesSessions ==
  (lastDone.op = "revokeAll")
    => \A s \in Sids : Live(s) => store[s].data.userId # lastDone.user

\* C13: the access token returned by a successful refreshTokens on the
\* refresh token of a session carries the userId of the access token issued
\* with that session and gets the same answer from the host-only check.
C13_ClaimsCarriedOver ==
  (lastDone.op = "refresh" /\ lastDone.res # Null
     /\ lastDone.tok.shape = "refresh")
    => \A a \in issued :
         (a.shape = "access" /\ a.sessionId = lastDone.tok.sessionId)
           => /\ lastDone.res.accessToken.userId = a.userId
              /\ requireHost(authenticate(Payload(lastDone.res.accessToken)).user)
                   = requireHost(authenticate(Payload(a)).user)

\* C14: a verifyToken during which a store call threw returns null, and the
\* authenticate middleware answers 401 without calling next().
C14_StoreFailureDenies ==
  (lastDone.op = "verify" /\ lastDone.cause = "store")
    => /\ lastDone.res = Null
       /\ ~authenticate(lastDone.res).next
       /\ authenticate(lastDone.res).status = 401

C14_Witness ==
  /\ lastDone.op = "verify"
  /\ lastDone.cause = "store"
  /\ lastDone.nstore = 1
  /\ lastDone.tok.shape = "access"
  /\ store[lastDone.tok.sessionId] # NoKey
  /\ authenticate(lastDone.res).status = 401

\* C15: a generateTokens (login) or refreshTokens call during which a store
\* call threw hands no token to its caller, and the login / refresh endpoint
\* answers with an error that carries no tokens.
C15_StoreFailureIssuesNothing ==
  [][(lastDone'.op \in {"issue", "refresh"} /\ lastDone'.cause = "store")
       => /\ lastDone'.res = Null
          /\ issued' = issued
          /\ lastDone'.op = "issue"
               => (login(lastDone').tokens = Null
                   /\ login(lastDone').status = 401)
          /\ lastDone'.op = "refresh"
               => (refreshToken(lastDone'.res).tokens = Null
                   /\ refreshToken(lastDone'.res).status = 401)]_vars

C15_Witness ==
  /\ lastDone.op = "refresh"
  /\ lastDone.cause = "store"
  /\ lastDone.nstore = 3
  /\ lastDone.res = Null
  /\ Live(lastDone.new.sessionId)
  /\ lastDone.new.accessToken \notin issued

\* C16: every verifyToken that is given a bad, expired or wrong-kind token,
\* finds no session or meets a store failure returns null, and authenticate
\* gives the one answer it gives for null.
C16_UniformFailure ==
  (lastDone.op = "verify"
     /\ (lastDone.cause # "ok" \/ lastDone.tok.shape # "access"))
    => /\ lastDone.res = Null
       /\ authenticate(lastDone.res) = authenticate(Null)

\* C18 (as claimed): a verifyToken whose lastActivity write-back threw still
\* returns the identity of its token.
C18_TouchIsBestEffort ==
  (lastDone.op = "verify" /\ lastDone.nstore = 2 /\ lastDone.cause = "store")
    => lastDone.res = Payload(lastDone.tok)

\* C18 (amended): a verifyToken whose lastActivity write-back threw returns
\* null, authenticate denies the request, and the store is left as it was.
C18_TouchFailureDenies ==
  [][(lastDone'.op = "verify" /\ lastDone'.nstore = 2
        /\ lastDone'.cause = "store")
       => /\ lastDone'.res = Null
          /\ ~authenticate(lastDone'.res).next
          /\ store' = store]_vars

C18_Witness ==
  /\ lastDone.op = "verify"
  /\ lastDone.nstore = 2
  /\ lastDone.cause = "store"
  /\ lastDone.tok.shape = "access"
  /\ lastDone.res = Null
  /\ Live(lastDone.tok.sessionId)

\* C17: every step in which generateTokens creates a session writes it under
\* a sessionId that has no record in the store and was never handed out,
\* leaves every other record as it was, and the new session is live.
C17_FreshSessionId ==
  [][nextSid' # nextSid
       => /\ store[nextSid] = NoKey
          /\ \A t \in issued : t.sessionId # nextSid
          /\ deleted[nextSid] = "no"
          /\ getSession(store', nextSid, now') # Null
          /\ \A s \in Sids \ {nextSid} : store'[s] = store[s]]_vars

C17_Witness ==
  /\ lastDone.op = "issue"
  /\ lastDone.res # Null
  /\ Live(lastDone.res.sessionId)
  /\ \E s \in Sids \ {lastDone.res.sessionId} :
       /\ Live(s)
       /\ parent[s] = 0
       /\ store[s].data.userId = lastDone.user
       /\ store[s].data.deviceId = lastDone.dev

\* C19: after a refreshTokens call that got as far as its deleteSession, the
\* store does not hold both the session of the presented token and the
\* session the call created.
C19_RotationAllOrNothing ==
  (lastDone.op = "refresh" /\ lastDone.nstore = 3)
    => ~(Live(lastDone.tok.sessionId) /\ Live(lastDone.new.sessionId))

\* C20: after a refreshTokens call that returned a pair with nothing else
\* running during it, the session of the presented token is gone, the new
\* session has another sessionId, and the live sessions of the user are
\* those from before the call with the old one replaced by the new one.
C20_RotationReplacesSession ==
  (lastDone.op = "refresh" /\ lastDone.res # Null)
    => LET old == lastDone.tok.sessionId
           new == lastDone.new.sessionId
           u == lastDone.tok.userId
       IN /\ store[old] = NoKey
          /\ new # old
          /\ old \in lastDone.sessions
          /\ new \notin lastDone.sessions
          /\ UserSessions(u) = (lastDone.sessions \ {old}) \cup {new}
          /\ Cardinality(UserSessions(u)) = Cardinality(lastDone.sessions)

C20_Witness ==
  /\ lastDone.op = "refresh"
  /\ lastDone.res # Null
  /\ lastDone.tok.shape = "refresh"
  /\ lastDone.sessions = {lastDone.tok.sessionId}
  /\ UserSessions(lastDone.tok.userId) = {lastDone.new.sessionId}

C27_SlidingExpiry ==
  [][(lastDone'.op = "verify" /\ lastDone'.res # Null)
       => /\ store'[lastDone'.tok.sessionId] # NoKey
          /\ store'[lastDone'.tok.sessionId].expiresAt = now' + SessionTTL
          /\ store'[lastDone'.tok.sessionId].data.lastActivity = now']_vars

C27_Witness ==
  /\ lastDone.op = "verify"
  /\ lastDone.res # Null
  /\ lastDone.tok.shape = "access"
  /\ now > store[lastDone.tok.sessionId].data.createdAt
  /\ store[lastDone.tok.sessionId].expiresAt
       = store[lastDone.tok.sessionId].data.createdAt + SessionTTL + 1

\* C22: the step in which a verifyToken returns a payload changes no other
\* session, and leaves the session of its token with the userId, deviceId
\* and createdAt that the call read and that the record had before the step.
C22_VerifyKeepsIdentity ==
  [][(lastDone'.op = "verify" /\ lastDone'.res # Null)
       => LET sid == lastDone'.tok.sessionId
              kept == {"userId", "deviceId", "createdAt"}
          IN /\ \A s \in Sids \ {sid} : store'[s] = store[s]
             /\ store'[sid] # NoKey
             /\ \A f \in kept : store'[sid].data[f] = lastDone'.sess[f]
             /\ store[sid] # NoKey
                  => \A f \in kept : store'[sid].data[f] = store[sid].data[f]]_vars

C22_Witness ==
  /\ lastDone.op = "verify"
  /\ lastDone.res # Null
  /\ store[lastDone.tok.sessionId].data.lastActivity = now
  /\ \E q \in Procs :
       /\ pc[q] = "v_touch"
       /\ call[q].tok.sessionId = lastDone.tok.sessionId
       /\ call[q].sess.lastActivity < now
       /\ call[q].sess.createdAt = store[lastDone.tok.sessionId].data.createdAt

\* C23: a verifyToken or refreshTokens call on a token that is expired or
\* has a bad signature returns null in the step it starts, having made no
\* store call, the store unchanged.
C23_DecodeBeforeStore ==
  [][(/\ lastDone'.op \in {"verify", "refresh"}
      /\ (lastDone'.expd \/ lastDone'.tok.sig # "ok"))
       => /\ lastDone'.res = Null
          /\ lastDone'.cause \in {"invalid", "expired"}
          /\ lastDone'.nstore = 0
          /\ pc' = pc
          /\ store' = store]_vars

C23_Witness ==
  /\ lastDone.op = "refresh"
  /\ lastDone.expd
  /\ lastDone.cause = "expired"
  /\ Live(lastDone.tok.sessionId)

\* C24: a refreshTokens call that fails on a bad or expired token, a missing
\* session or a userId mismatch returns null and leaves the store as it was.
C24_FailedRefreshLeavesStore ==
  [][(/\ lastDone'.op = "refresh"
      /\ lastDone'.cause \in {"invalid", "expired", "nosession"})
       => (lastDone'.res = Null /\ store' = store)]_vars

C24_Witness ==
  /\ lastDone.op = "refresh"
  /\ lastDone.cause = "nosession"
  /\ lastDone.tok.shape = "refresh"
  /\ lastDone.wasQuiet
  /\ \E s \in Sids : Live(s)

\* C25: a refreshTokens call that returned a pair found a session with the
\* userId of the presented token, and the new session and both new tokens
\* carry that userId; tokens of a session and of the session its rotation
\* created name the same user.
C25_RotationKeepsUser ==
  /\ (lastDone.op = "refresh" /\ lastDone.res # Null)
       => /\ lastDone.sess.userId = lastDone.tok.userId
          /\ lastDone.res.accessToken.userId = lastDone.tok.userId
          /\ lastDone.res.refreshToken.userId = lastDone.tok.userId
          /\ store[lastDone.new.sessionId] # NoKey
               => store[lastDone.new.sessionId].data.userId = lastDone.tok.userId
  /\ \A t1 \in issued, t2 \in issued :
       parent[t2.sessionId] = t1.sessionId => t2.userId = t1.userId

C25_Witness ==
  /\ lastDone.op = "refresh"
  /\ lastDone.res # Null
  /\ parent[lastDone.tok.sessionId] # 0
  /\ lastDone.res.accessToken.userId = "u2"
  /\ Live(lastDone.new.sessionId)

\* C26: the session created by a refreshTokens call that returned a pair has
\* the deviceId of the session it replaces, and the new access token carries
\* it; access tokens along a chain of rotations carry one deviceId.
C26_RotationKeepsDevice ==
  /\ (lastDone.op = "refresh" /\ lastDone.res # Null)
       => /\ lastDone.res.accessToken.deviceId = lastDone.sess.deviceId
          /\ store[lastDone.new.sessionId] # NoKey
               => store[lastDone.new.sessionId].data.deviceId
                    = lastDone.sess.deviceId
  /\ \A t1 \in issued, t2 \in issued :
       (t1.shape = "access" /\ t2.shape = "access"
          /\ parent[t2.sessionId] = t1.sessionId)
         => t2.deviceId = t1.deviceId

C26_Witness ==
  /\ lastDone.op = "refresh"
  /\ lastDone.res # Null
  /\ parent[lastDone.tok.sessionId] # 0
  /\ lastDone.res.accessToken.deviceId = "d1"
  /\ store[lastDone.new.sessionId].data.deviceId = "d1"

\* C28: optionalAuth calls next() exactly once and sends no response,
\* whatever the header and whatever verifyToken gives (a payload, null or a
\* throw), and leaves a req.user only for a bearer token with a payload.
C28_OptionalAuthAlwaysNext ==
  /\ lastDone.op = "optional"
       => /\ lastDone.nexts = 1
          /\ ~lastDone.sent
          /\ lastDone.user # Null
               <=> (lastDone.header = "bearer" /\ lastDone.out # Null)
  /\ \A h \in Headers, out \in {Null, Thrown} \cup {Payload(t) : t \in issued} :
       LET r == optionalAuth(h, out)
       IN /\ r.nexts = 1
          /\ ~r.sent
          /\ r.user # Null <=> (h = "bearer" /\ out \notin {Null, Thrown})

C28_Witness ==
  /\ lastDone.op = "optional"
  /\ lastDone.header = "bearer"
  /\ lastDone.out = Null
  /\ lastDone.nexts = 1
  /\ lastDone.user = Null
  /\ issued # {}

\* C29: for every client the limiter has passed at most maxRequests
\* requests to next() in the client's current window, and the stored count
\* is at most maxRequests.
C29_AtMostMaxRequests ==
  limiter # Null
    => \A c \in Clients :
         /\ passed[c] <= limiter.maxRequests
         /\ requestCounts[c] # NoKey
              => requestCounts[c].count <= limiter.maxRequests

Queried(st) == \E i \in 1..Len(lastDone.log) : lastDone.log[i] = st

\* C30: a Database.transaction that got a client has issued COMMIT exactly
\* if the callback completed; if the callback or COMMIT threw it has issued
\* ROLLBACK and throws that same error; it released the client once; and a
\* recorded migration filename is one whose SQL is committed too.
C30_TransactionCommitsOrRollsBack ==
  /\ (lastDone.op = "migrate" /\ lastDone.client)
       => /\ Queried("COMMIT") <=> lastDone.cbDone
          /\ lastDone.first \in {"callback", "commit"}
               => (Queried("ROLLBACK") /\ lastDone.threw = lastDone.first)
          /\ lastDone.released = 1
  /\ migrations \subseteq schema

====
